---------------------------- MODULE Spec2Model ----------------------------
(***************************************************************************)
(* Model of the PRD -> blog pipeline orchestrator of ShinraAI:             *)
(*   backend/app/main.py                   the request handlers            *)
(*   backend/app/services/orchestrator.py  run_pipeline,                   *)
(*                                         run_pipeline_with_feedback,     *)
(*                                         _finalize_with_quality_gate     *)
(*   backend/app/services/run_store.py     the JSON run record             *)
(*   backend/app/utils/json_guardrails.py  extract_json, validate_research *)
(*                                                                         *)
(* One run record (state) is shared by a bounded number of HTTP requests.  *)
(* The handlers are coroutines of one asyncio event loop: the code between *)
(* two suspension points runs without interleaving, and the only           *)
(* suspension points of a pipeline are the stage-executor call             *)
(* (loop.run_in_executor in _kickoff) and the grader call (acompletion in  *)
(* call_llm); main.py passes no repo, so _log and _set_status never        *)
(* suspend.  Hence one action per segment of code between two suspension   *)
(* points; pc[p] names the call request p is suspended on.                 *)
(***************************************************************************)
EXTENDS Integers, Sequences, FiniteSets, TLC

\* ------------------------------------------------------------------ bounds
\* number of HTTP requests (execute / feedback) sent to the run
MaxCalls == 2
\* number of stage-executor / grader calls that return normally in one
\* behaviour; once used up, the executor only fails
MaxStageCalls == 13
\* largest value of the RUBRIC_MAX_RETRIES environment variable
MaxRetriesEnv == 1
\* number of abnormal results in one behaviour: a stage or grader call that
\* raises, or a stage output that is not the JSON the stage was asked for
\* (a call may always raise once no call can return any more)
MaxFaults == 2
\* number of pipeline segments in which calls of the telemetry sink raise
MaxSinkFailures == 2
\* length of a list RunStore.append_step is applied to
MaxLen == 3

\* ------------------------------------------------------- program constants
MAX_FACT_CHECK_RETRIES == 2
\* rubric scores and thresholds are kept in hundredths (3.5 is 350)
RUBRIC_SCALE_MIN == 100
RUBRIC_SCALE_MAX == 500
MIN_CLARITY == 300
MIN_CORRECTNESS == 400
MIN_COMPLETENESS == 300
MIN_OVERALL == 350

VARIABLES
    state,        \* the persisted run record (state.json)
    env_retries,  \* int(RUBRIC_MAX_RETRIES) of the process environment
    pc,           \* pc[p]: where request p stands
    loc,          \* loc[p]: the local variables of request p's coroutine
    obs,          \* obs[p]: what request p did (stage calls, status writes)
    ntexts,       \* number of texts the stage executor has produced
    used,         \* number of executor / grader calls that returned
    faults,       \* number of abnormal results so far
    raw_rubric,   \* the argument of a call of _normalize_rubric_payload
    normalized,   \* what that call returned (NULL before it returns)
    sink,         \* the telemetry sink (RunRepo) the pipelines are given
    twin,         \* the run record the last step leaves with a healthy sink
    step_call     \* a call of RunStore.append_step and what it did

vars == <<state, env_retries, pc, loc, obs, ntexts, used, faults,
          raw_rubric, normalized, sink, twin, step_call>>

Req == 1..MaxCalls

\* JSON null / Python None for object-valued fields
NULL == [null |-> TRUE]
\* None for the string-valued error field and error argument
NoError == ""

Terminal == {"DONE", "DONE_WITH_WARNINGS", "ERROR"}
Statuses == {"PENDING", "RUNNING"} \cup Terminal

\* the stage values submit_feedback accepts
valid_stages == {"researcher", "writer", "fact_checker", "style_editor"}
\* the stage values the requests of the model carry
Stages == valid_stages \cup {"publisher"}

Last(s) == s[Len(s)]

\* --------------------------------------------------------------- RunStore
\* RunStore.init_run: the record of a new run, with its first log line;
\* three fields are not fields of state.json: stream is the content of the
\* run's logs.txt, line by line, status_writes lists the values the store
\* has written to status, in order, and graded is the text the grader was
\* given for the rubric that was stored last (kept for the claims)
init_run ==
    [ status       |-> "PENDING",
      error        |-> NoError,
      research     |-> NULL,
      drafts       |-> << >>,
      fact_checks  |-> << >>,
      final        |-> NULL,
      rubric       |-> NULL,
      citations    |-> << >>,
      feedback     |-> << >>,
      quality_gate |-> NULL,
      logs         |-> << "Run initialised" >>,
      stream       |-> << "Run initialised" >>,
      status_writes |-> << "PENDING" >>,
      graded       |-> NULL ]

\* mutant of log: the line is not written to logs.txt
log_record_only(s, message) == [s EXCEPT !.logs = Append(@, message)]

\* RunStore.log: the line goes to logs.txt, then to the logs of the record
log(s, message) ==
    [s EXCEPT !.stream = Append(@, message), !.logs = Append(@, message)]

\* mutant of set_status: a run that starts again drops its quality gate
set_status_clearing(s, status, error) ==
    [s EXCEPT !.status = status,
              !.error  = IF error # NoError THEN error ELSE @,
              !.quality_gate = IF status = "RUNNING" THEN NULL ELSE @,
              !.status_writes = Append(@, status)]

\* RunStore.set_status: error is stored only when it is truthy
set_status(s, status, error) ==
    [s EXCEPT !.status = status,
              !.error  = IF error # NoError THEN error ELSE @,
              !.status_writes = Append(@, status)]

\* RunStore.update_steps for the keys the orchestrator writes
update_research(s, value) == [s EXCEPT !.research = value]

\* mutant of update_rubric: the first rubric of a run is never replaced
update_rubric_first_only(s, value) ==
    IF s.rubric = NULL THEN [s EXCEPT !.rubric = value] ELSE s

\* mutant of update_final: the polish output is not stored
update_final_skipped(s, value) == s

update_final(s, value) == [s EXCEPT !.final = value]

update_rubric(s, value) == [s EXCEPT !.rubric = value]

\* RunStore.update with the patch {"quality_gate": value}
update_quality_gate(s, value) == [s EXCEPT !.quality_gate = value]

\* the value under state["steps"][key]: a JSON list (items), no such key
\* ("absent"), or a value of another JSON type ("null", "dict", "str")
JSteps(kind, items) == [kind |-> kind, items |-> items]

\* RunStore.append_step on the value of the key: what the key holds after
\* the call, and whether the call raised
append_step(field, value) ==
    [field |-> IF field.kind = "list"
               THEN JSteps("list", Append(field.items, value))
               ELSE JSteps("list", << value >>),
     raised |-> FALSE]

\* mutant of append_draft: the list is started again
append_draft_restarted(s, value) == [s EXCEPT !.drafts = << value >>]

\* RunStore.append_step on the two list-valued keys
append_draft(s, value) == [s EXCEPT !.drafts = Append(@, value)]

append_fact_check(s, value) == [s EXCEPT !.fact_checks = Append(@, value)]

\* RunStore.set_citations: the list is replaced
set_citations(s, citations) == [s EXCEPT !.citations = citations]

\* RunStore.add_feedback: append the entry, then log
add_feedback(s, stage, text) ==
    log([s EXCEPT !.feedback = Append(@, [stage |-> stage, feedback |-> text])],
        "User feedback added")

\* _next_iteration(store, run_id, "drafts")
next_iteration(s) == Len(s.drafts) + 1

\* ------------------------------------------------ stage outputs and parsing
\* A stage output is a text: form says how it is laid out, value is the JSON
\* value written in it (if any).
\*   "json"   the whole text is JSON
\*   "fenced" prose around a ```json ... ``` block
\*   "prose"  no JSON in it
\* A JSON value is a record with a type field; the orchestrator distinguishes
\* "dict", any other JSON type ("list") and, after parsing, None ("none").
JNone == [type |-> "none"]

JList == [type |-> "list"]

\* a research payload: sources is "list" (a JSON list, in srcs), "absent"
\* (no such key) or "other" (present, not a list)
JResearch(kind, srcs) == [type |-> "dict", sources |-> kind, srcs |-> srcs]

\* a source of a research payload, with or without an "id" key
Source(id) == [has_id |-> TRUE, id |-> id]

SourceNoId == [has_id |-> FALSE, id |-> ""]

\* a fact-check payload
JFactCheck(has_passed, passed, issues) ==
    [type |-> "dict", has_passed |-> has_passed, passed |-> passed,
     issues |-> issues]

\* a JSON number in hundredths, a null / missing key, or a non-numeric value
Num(v) == [kind |-> "num", v |-> v]

Absent == [kind |-> "null", v |-> 0]

NotANumber == [kind |-> "str", v |-> 0]

\* a rubric payload of the grader
JRubric(clarity, correctness, completeness, overall) ==
    [type |-> "dict", clarity |-> clarity, correctness |-> correctness,
     completeness |-> completeness, overall |-> overall]

Text(form, value) == [form |-> form, value |-> value]

\* json_guardrails.extract_json: direct parse, else the fenced block, else None
extract_json(text) ==
    IF text.form \in {"json", "fenced"} THEN text.value ELSE JNone

\* json_guardrails.validate_research, for data that is None or a dict
validate_research(data) ==
    /\ data.type # "none"
    /\ data.sources = "list"
    /\ Len(data.srcs) # 0
    /\ \A i \in 1..Len(data.srcs) : data.srcs[i].has_id

\* the synthetic research built from the PRD (orchestrator.py 102-115)
synthetic_research == JResearch("list", << Source("S0") >>)

\* research_dict.get("sources", []) as the comprehension iterates it: a
\* non-list value has no item that supports source["id"]
sources_of(research_dict) ==
    IF research_dict.sources = "absent" THEN << >> ELSE research_dict.srcs

\* TRUE iff the citations comprehension raises (KeyError / TypeError)
citations_raise(research_dict) ==
    \/ research_dict.sources = "other"
    \/ \E i \in 1..Len(sources_of(research_dict)) :
          ~sources_of(research_dict)[i].has_id

\* the citations comprehension (orchestrator.py 118-121, 343-346)
citations_of(research_dict) ==
    [i \in 1..Len(sources_of(research_dict)) |->
        [id |-> sources_of(research_dict)[i].id]]

\* _normalize_fact_check, for fc_dict that is None or a dict
normalize_fact_check(fc_dict, default_passed) ==
    IF fc_dict.type = "none"
    THEN [passed |-> default_passed,
          issues |-> IF ~default_passed THEN << "parse error" >> ELSE << >>]
    ELSE [passed |-> IF fc_dict.has_passed THEN fc_dict.passed
                     ELSE default_passed,
          issues |-> fc_dict.issues]

Max(a, b) == IF a >= b THEN a ELSE b

Min(a, b) == IF a <= b THEN a ELSE b

\* mutant of clamp_score: no upper limit
clamp_score_floor_only(value) ==
    IF value.kind = "num"
    THEN Max(RUBRIC_SCALE_MIN, value.v)
    ELSE RUBRIC_SCALE_MIN

\* _clamp_score: a value float() rejects becomes RUBRIC_SCALE_MIN
clamp_score(value) ==
    IF value.kind = "num"
    THEN Max(RUBRIC_SCALE_MIN, Min(RUBRIC_SCALE_MAX, value.v))
    ELSE RUBRIC_SCALE_MIN

\* round((a + b + c) / 3, 2) on hundredths: thirds never tie
round_mean3(a, b, c) == (2 * (a + b + c) + 3) \div 6

\* _rubric_thresholds()["max_retries"]
max_rubric_retries == Max(0, env_retries)

\* mutant of normalize_rubric_payload: the correctness floor is not tested
normalize_rubric_payload_lenient(raw) ==
    LET data == IF raw.type = "none"
                THEN JRubric(Absent, Absent, Absent, Absent) ELSE raw
        clarity == clamp_score(data.clarity)
        correctness == clamp_score(data.correctness)
        completeness == clamp_score(data.completeness)
        overall == IF data.overall.kind = "null"
                   THEN round_mean3(clarity, correctness, completeness)
                   ELSE clamp_score(data.overall)
    IN  [scores |-> [clarity |-> clarity, correctness |-> correctness,
                     completeness |-> completeness, overall |-> overall],
         passed |-> /\ clarity >= MIN_CLARITY
                    /\ completeness >= MIN_COMPLETENESS
                    /\ overall >= MIN_OVERALL]

\* _normalize_rubric_payload, for raw that is None or a dict; only the
\* fields the orchestrator reads again are kept
normalize_rubric_payload(raw) ==
    LET data == IF raw.type = "none"
                THEN JRubric(Absent, Absent, Absent, Absent) ELSE raw
        clarity == clamp_score(data.clarity)
        correctness == clamp_score(data.correctness)
        completeness == clamp_score(data.completeness)
        overall == IF data.overall.kind = "null"
                   THEN round_mean3(clarity, correctness, completeness)
                   ELSE clamp_score(data.overall)
    IN  [scores |-> [clarity |-> clarity, correctness |-> correctness,
                     completeness |-> completeness, overall |-> overall],
         passed |-> /\ clarity >= MIN_CLARITY
                    /\ correctness >= MIN_CORRECTNESS
                    /\ completeness >= MIN_COMPLETENESS
                    /\ overall >= MIN_OVERALL]

\* the texts the stages return in the model
ResearchTexts ==
    { Text("json", JResearch("list", << Source("S1"), Source("S2") >>)),
      Text("prose", JNone),
      Text("json", JResearch("absent", << >>)),
      Text("fenced", JResearch("list", << Source("S1"), SourceNoId >>)),
      Text("json", JList) }

FactCheckTexts ==
    { Text("json", JFactCheck(TRUE, TRUE, << >>)),
      Text("fenced", JFactCheck(TRUE, FALSE, << "unsupported claim" >>)),
      Text("prose", JNone),
      Text("json", JList) }

GraderTexts ==
    { Text("json", JRubric(Num(400), Num(500), Num(300), Absent)),
      Text("json", JRubric(Num(400), Num(300), Num(400), Num(367))) }

\* the outputs that are what the stage was asked for
WellFormed ==
    { Text("json", JResearch("list", << Source("S1"), Source("S2") >>)),
      Text("json", JFactCheck(TRUE, TRUE, << >>)),
      Text("fenced", JFactCheck(TRUE, FALSE, << "unsupported claim" >>)) }
      \cup GraderTexts

\* messages of the exceptions a stage call raises (str(exc) is empty for an
\* exception raised without arguments)
StageErrors == {"stage failed", "Rate Limit exceeded", ""}

\* str.lower() on the messages of the model
lower(message) ==
    IF message = "Rate Limit exceeded" THEN "rate limit exceeded" ELSE message

\* the lowercase messages that contain "rate_limit" or "rate limit"
RateLimitTexts == {"rate limit exceeded", "rate_limit_exceeded"}

\* mutant of is_rate_limit: the message is not lowercased
is_rate_limit_case_sensitive(message) == message \in RateLimitTexts

\* the test of _kickoff on str(exc).lower() (orchestrator.py 1071-1072)
is_rate_limit(message) == lower(message) \in RateLimitTexts

\* ------------------------------------------------------------ the requests
\* the calls a coroutine suspends on, named after their call sites
Sites == {"research", "write", "fact_check", "polish", "grade", "rb_write",
          "rb_fact_check", "fb_research", "fb_write", "fb_fact_check",
          "fb_fact_only"}

\* state["steps"] as the handler loaded it (the fields the pipelines read)
steps_of(s) ==
    [research |-> s.research, drafts |-> s.drafts,
     fact_checks |-> s.fact_checks, final |-> s.final]

\* the parts of the run record an execution is judged by: status, steps,
\* citations and quality_gate
visible(s) ==
    [status |-> s.status, steps |-> steps_of(s), citations |-> s.citations,
     quality_gate |-> s.quality_gate]

\* the locals of a request that has not started
no_locals ==
    [ kind            |-> "none",
      stage           |-> "none",
      steps           |-> steps_of(init_run),
      research_dict   |-> NULL,
      draft_text      |-> 0,
      final_md        |-> NULL,
      checked         |-> 0,
      fact_passed     |-> FALSE,
      iteration       |-> 0,
      current_iteration |-> 0,
      writer_iteration  |-> 0,
      rubric_attempt  |-> 0,
      rubric_passed   |-> FALSE,
      review_required |-> FALSE ]

\* what a request has done so far: its calls by site, the terminal statuses
\* it wrote, and str(exc) of the exceptions its handler caught
no_obs == [calls |-> [c \in Sites |-> 0], terminal |-> << >>,
           raised |-> << >>]

\* no call of append_step outside the pipelines
no_step_call ==
    [key |-> "drafts", field |-> JSteps("list", << >>), value |-> 0,
     result |-> NULL]

Init ==
    /\ state = init_run
    /\ env_retries \in -1..MaxRetriesEnv
    /\ pc = [p \in Req |-> "new"]
    /\ loc = [p \in Req |-> no_locals]
    /\ obs = [p \in Req |-> no_obs]
    /\ ntexts = 0
    /\ used = 0
    /\ faults = 0
    /\ raw_rubric = JNone
    /\ normalized = NULL
    /\ sink = [attached |-> FALSE, failed |-> 0]
    /\ twin = visible(init_run)
    /\ step_call = no_step_call

\* the pipelines called with a RunRepo (repo is a parameter of run_pipeline
\* and run_pipeline_with_feedback; main.py leaves it out, which is Init)
SinkInit ==
    /\ state = init_run
    /\ env_retries \in -1..MaxRetriesEnv
    /\ pc = [p \in Req |-> "new"]
    /\ loc = [p \in Req |-> no_locals]
    /\ obs = [p \in Req |-> no_obs]
    /\ ntexts = 0
    /\ used = 0
    /\ faults = 0
    /\ raw_rubric = JNone
    /\ normalized = NULL
    /\ sink = [attached |-> TRUE, failed |-> 0]
    /\ twin = visible(init_run)
    /\ step_call = no_step_call

\* str(exc) of the exception a failing sink call raises
SinkError == "telemetry sink unavailable"

\* the calls of the sink in one segment of a pipeline all succeed (TRUE) or
\* raise (FALSE); without a repo there is no call
sink_outcomes ==
    IF sink.attached /\ sink.failed < MaxSinkFailures
    THEN BOOLEAN ELSE {TRUE}

telemetry(ok) == sink' = IF ok THEN sink ELSE [sink EXCEPT !.failed = @ + 1]

\* mutant of sink_raises: the calls of the sink are not guarded
sink_raises_unguarded(ok) == ~ok

\* TRUE iff an exception of a sink call leaves the pipeline: every call of
\* repo sits in its own try / except Exception
sink_raises(ok) == FALSE

\* except Exception in execute_run / submit_feedback: ERROR is stored
caught(p, s, l, message) ==
    /\ state' = set_status(s, "ERROR", message)
    /\ loc' = [loc EXCEPT ![p] = l]
    /\ pc' = [pc EXCEPT ![p] = "done"]
    /\ obs' = [obs EXCEPT ![p].terminal = Append(@, "ERROR"),
                          ![p].raised = Append(@, message)]

\* requests are sent one after the other (p + 1 not before p)
arrives(p) == pc[p] = "new" /\ \A q \in 1..(p - 1) : pc[q] # "new"

\* mutant of conflict: no test
conflict_never(s) == FALSE

\* the 409 test of execute_run and submit_feedback
conflict(s) == s.status \in {"RUNNING"}

\* mutant of reject: the rejection is written to the run's log
reject_logged(p, code) ==
    /\ pc' = [pc EXCEPT ![p] = code]
    /\ state' = log(state, "Rejected")
    /\ UNCHANGED <<loc, obs, sink, twin>>

\* HTTPException raised before the try block: nothing is written
reject(p, code) ==
    /\ pc' = [pc EXCEPT ![p] = code]
    /\ UNCHANGED <<state, loc, obs, sink, twin>>

\* the coroutine of p suspends on the call at site, after a segment that
\* called the sink (_log, _set_status, step_end, log_llm_call, step_start)
invoke(p, s, l, site) ==
    \E ok \in sink_outcomes :
        /\ telemetry(ok)
        /\ IF sink_raises(ok)
           THEN /\ caught(p, state, l, SinkError)
                /\ twin' = visible(s)
           ELSE /\ state' = s
                /\ loc' = [loc EXCEPT ![p] = l]
                /\ pc' = [pc EXCEPT ![p] = site]
                /\ obs' = [obs EXCEPT ![p].calls[site] = @ + 1]
                /\ twin' = visible(state')

\* the handler of p returns, having written a terminal status; the segment
\* called the sink (step_end, log_llm_call, save_rubric, _set_status, _log)
end(p, s, l, status) ==
    \E ok \in sink_outcomes :
        /\ telemetry(ok)
        /\ IF sink_raises(ok)
           THEN /\ caught(p, state, l, SinkError)
                /\ twin' = visible(s)
           ELSE /\ state' = s
                /\ loc' = [loc EXCEPT ![p] = l]
                /\ pc' = [pc EXCEPT ![p] = "done"]
                /\ obs' = [obs EXCEPT ![p].terminal = Append(@, status)]
                /\ twin' = visible(state')

\* mutant of fail: the handler puts the run back to PENDING
fail_reset(p, s, l, message) ==
    /\ UNCHANGED sink
    /\ twin' = visible(set_status(s, "ERROR", message))
    /\ state' = set_status(s, "PENDING", message)
    /\ loc' = [loc EXCEPT ![p] = l]
    /\ pc' = [pc EXCEPT ![p] = "done"]
    /\ obs' = [obs EXCEPT ![p].terminal = Append(@, "ERROR"),
                          ![p].raised = Append(@, message)]

\* mutant of fail: the handler returns without storing ERROR
fail_status_kept(p, s, l, message) ==
    /\ UNCHANGED sink
    /\ twin' = visible(set_status(s, "ERROR", message))
    /\ state' = s
    /\ loc' = [loc EXCEPT ![p] = l]
    /\ pc' = [pc EXCEPT ![p] = "done"]
    /\ obs' = obs

\* the pipeline of p raises message and the handler stores ERROR; the
\* segment called the sink before (step_end, log_llm_call, _log)
fail(p, s, l, message) ==
    \E ok \in sink_outcomes :
        /\ telemetry(ok)
        /\ IF sink_raises(ok)
           THEN /\ caught(p, s, l, SinkError)
                /\ twin' = visible(set_status(s, "ERROR", message))
           ELSE /\ caught(p, s, l, message)
                /\ twin' = visible(state')

\* mutant of final_status_of: only the review flag is consulted
final_status_review_only(fact_passed, rubric_passed, review_required) ==
    IF ~review_required THEN "DONE" ELSE "DONE_WITH_WARNINGS"

\* mutant of final_status_of: the fact-check verdict is not consulted
final_status_rubric_only(fact_passed, rubric_passed, review_required) ==
    IF rubric_passed /\ ~review_required
    THEN "DONE" ELSE "DONE_WITH_WARNINGS"

\* the final_status expression of both pipelines
final_status_of(fact_passed, rubric_passed, review_required) ==
    IF fact_passed /\ rubric_passed /\ ~review_required
    THEN "DONE" ELSE "DONE_WITH_WARNINGS"

\* mutant of complete: the pipeline returns without writing its final status
complete_status_unset(p, s, l) ==
    LET final_status ==
            final_status_of(l.fact_passed, l.rubric_passed, l.review_required)
    IN  end(p, log(s, "Pipeline complete"), l, final_status)

\* the end of run_pipeline / run_pipeline_with_feedback after the quality gate
complete(p, s, l) ==
    LET final_status ==
            final_status_of(l.fact_passed, l.rubric_passed, l.review_required)
        s1 == set_status(s, final_status, NoError)
        s2 == IF l.kind = "execute"
              THEN log(log(IF l.review_required
                           THEN log(s1, "Escalating to human review")
                           ELSE s1,
                           "Rubric"),
                       "Pipeline complete")
              ELSE log(s1, "Pipeline re-run complete")
    IN  end(p, s2, l, final_status)

\* the top of the while True loop of _finalize_with_quality_gate
polish_next(p, s, l) ==
    invoke(p, log(s, "Step 4: Style polisher attempt"),
           [l EXCEPT !.rubric_attempt = @ + 1], "polish")

\* entry of _finalize_with_quality_gate(draft_text, fact_passed)
finalize_with_quality_gate(p, s, l) ==
    polish_next(p, s, [l EXCEPT !.rubric_attempt = 0,
                                !.rubric_passed = FALSE,
                                !.review_required = FALSE])

\* POST /runs/{run_id}/execute up to the research call of run_pipeline
execute_run(p) ==
    /\ arrives(p)
    /\ UNCHANGED <<env_retries, ntexts, used, faults, raw_rubric,
                   normalized, step_call>>
    /\ IF conflict(state)
       THEN reject(p, "conflict")
       ELSE invoke(p,
                   log(log(set_status(state, "RUNNING", NoError), "Crew built"),
                       "Step 1: Researcher starting"),
                   [no_locals EXCEPT !.kind = "execute",
                                     !.steps = steps_of(state)],
                   "research")

\* the environment spends one of its abnormal results, or none
abnormal(is) ==
    IF is
    THEN /\ faults < MaxFaults \/ used >= MaxStageCalls
         /\ faults' = faults + 1
    ELSE faults' = faults

\* a stage call returns: one more text, one less of the budget
returns(p, site, fault) ==
    /\ pc[p] = site
    /\ used < MaxStageCalls
    /\ used' = used + 1
    /\ ntexts' = ntexts + 1
    /\ abnormal(fault)
    /\ UNCHANGED <<env_retries, raw_rubric,
                   normalized, step_call>>

\* mutant of fact_loop_continues: one iteration too many
fact_loop_off_by_one(iteration) == iteration <= 1 + MAX_FACT_CHECK_RETRIES

\* the condition of the while loop of run_pipeline (136, and 206)
fact_loop_continues(iteration) == iteration < 1 + MAX_FACT_CHECK_RETRIES

\* the Writer step of the while loop of run_pipeline
write_next(p, s, l) ==
    invoke(p, log(s, "Step 2: Writer iteration"),
           [l EXCEPT !.iteration = @ + 1], "write")

\* the writer step of run_pipeline_with_feedback (stage researcher or writer)
fb_write_start(p, s, l) ==
    invoke(p, log(s, "Re-running Step 2: Writer with feedback"),
           [l EXCEPT !.current_iteration = Len(l.steps.drafts) + 1],
           "fb_write")

\* mutant of latest_fact_passed: any persisted fact-check that passed counts
latest_fact_passed_any(s) ==
    \/ Len(s.fact_checks) = 0
    \/ \E i \in 1..Len(s.fact_checks) : s.fact_checks[i].passed

\* fact_passed as run_pipeline_with_feedback reads it back from the store
\* (472-473): the flag of the last fact_checks entry, True without one
latest_fact_passed(s) ==
    IF Len(s.fact_checks) > 0 THEN Last(s.fact_checks).passed ELSE TRUE

\* run_pipeline_with_feedback from `if research_dict is None` to the gate
fb_tail(p, s, l) ==
    finalize_with_quality_gate(p, s,
        [l EXCEPT !.research_dict =
                      IF @ = NULL THEN synthetic_research ELSE @,
                  !.fact_passed = latest_fact_passed(s)])

\* the else branch at orchestrator.py 460-462: the draft of the loaded steps
fb_stale_draft(l) ==
    IF Len(l.steps.drafts) > 0 THEN Last(l.steps.drafts).text ELSE 0

\* the research call returns text (run_pipeline 96-128, feedback 323-348)
research_returns(p, site) ==
    /\ \E text \in ResearchTexts :
       /\ returns(p, site, text \notin WellFormed)
       /\ LET parsed == extract_json(text)
               l == loc[p]
           IN
             IF parsed.type = "list"
             THEN fail(p, state, l, "'list' object has no attribute 'get'")
             ELSE
             LET valid == validate_research(parsed)
                 s1 == IF valid THEN state
                       ELSE log(state, "Research output validation soft-failed")
                 research_dict == IF parsed.type = "none"
                                  THEN synthetic_research ELSE parsed
                 s2 == update_research(s1, research_dict)
                 l2 == [l EXCEPT !.research_dict = research_dict]
             IN  IF citations_raise(research_dict)
                 THEN fail(p, s2, l2, "'id'")
                 ELSE
                 LET s3 == set_citations(s2, citations_of(research_dict))
                 IN  IF site = "research"
                     THEN write_next(p, log(s3, "Research done"), l2)
                     ELSE fb_write_start(
                              p, log(s3, "Research re-done with feedback"), l2)

ResearchReturns(p) == research_returns(p, "research")

FbResearchReturns(p) == research_returns(p, "fb_research")

\* the entry appended to steps.fact_checks; draft is the task input "draft"
\* of the call whose result the entry records and unparsed tells that
\* extract_json found no JSON in the response (both kept for the claims, the
\* code stores iteration, passed, issues and rewrite_instructions)
fact_check_entry(iteration, parsed, fc_dict, draft) ==
    [iteration |-> iteration, passed |-> fc_dict.passed,
     issues |-> fc_dict.issues, draft |-> draft,
     unparsed |-> parsed.type = "none"]

\* the write call of the Fact-Check Loop returns (run_pipeline 159-178)
WriteReturns(p) ==
    /\ returns(p, "write", FALSE)
    /\ LET l == loc[p]
           draft_text == ntexts + 1
           s1 == append_draft(state,
                     [iteration |-> l.iteration, text |-> draft_text])
           s2 == log(log(s1, "Draft written"), "Step 3: Fact-checker iteration")
       IN  invoke(p, s2, [l EXCEPT !.draft_text = draft_text,
                                   !.checked = draft_text], "fact_check")

\* the fact-check call of the Fact-Check Loop returns (run_pipeline 179-230)
FactCheckReturns(p) ==
    /\ \E text \in FactCheckTexts :
       /\ returns(p, "fact_check", text \notin WellFormed)
       /\ LET parsed == extract_json(text)
               l == loc[p]
           IN
             IF parsed.type = "list"
             THEN fail(p, state, l, "'list' object has no attribute 'get'")
             ELSE
             LET fc_dict == normalize_fact_check(parsed, FALSE)
                 s1 == append_fact_check(state,
                           fact_check_entry(l.iteration, parsed, fc_dict, l.checked))
                 s2 == log(s1, "Fact-check")
             IN  IF fc_dict.passed
                 THEN finalize_with_quality_gate(
                          p, s2, [l EXCEPT !.fact_passed = TRUE])
                 ELSE IF fact_loop_continues(l.iteration)
                 THEN write_next(p, s2, l)
                 ELSE finalize_with_quality_gate(
                          p, log(s2, "Max retries reached"), l)

\* the polish call returns (_finalize_with_quality_gate 825-839)
PolishReturns(p) ==
    /\ returns(p, "polish", FALSE)
    /\ LET l == loc[p]
           final_md == [text |-> ntexts + 1, draft |-> l.draft_text]
           s1 == update_final(state, [markdown |-> final_md])
       IN  invoke(p, log(s1, "Step 5: Rubric grader attempt"),
                  [l EXCEPT !.final_md = final_md], "grade")

\* mutant of rubric_payload_of: a grading that raised is not counted
rubric_payload_uncounted(graded, attempt, failed) ==
    [scores |-> graded.scores,
     passed |-> IF failed THEN FALSE ELSE graded.passed,
     attempt |-> IF failed THEN attempt - 1 ELSE attempt,
     attempts |-> IF failed THEN attempt - 1 ELSE attempt,
     review_required |-> FALSE, error |-> failed]

\* mutant of rubric_payload_of: every failed grading asks for a review
rubric_payload_flagged_early(graded, attempt, failed) ==
    [scores |-> graded.scores,
     passed |-> IF failed THEN FALSE ELSE graded.passed,
     attempt |-> attempt, attempts |-> attempt,
     review_required |-> failed \/ ~graded.passed, error |-> failed]

\* the rubric_payload _grade_rubric returns, with the two fields
\* _finalize_with_quality_gate adds (840-841)
rubric_payload_of(graded, attempt, failed) ==
    [scores |-> graded.scores,
     passed |-> IF failed THEN FALSE ELSE graded.passed,
     attempt |-> attempt, attempts |-> attempt,
     review_required |-> FALSE, error |-> failed]

\* mutant of quality_gate_of: the review flag is not copied
quality_gate_unflagged(rubric_payload) ==
    [passed |-> rubric_payload.passed,
     review_required |-> FALSE,
     attempts |-> rubric_payload.attempts,
     scores |-> rubric_payload.scores]

\* the quality_gate snapshot (846-851, 865-870)
quality_gate_of(rubric_payload) ==
    [passed |-> rubric_payload.passed,
     review_required |-> rubric_payload.review_required,
     attempts |-> rubric_payload.attempts,
     scores |-> rubric_payload.scores]

\* mutant of retries_exhausted: the gate retries as long as the rubric fails
retries_exhausted_never(rubric_attempt) == FALSE

\* mutant of retries_exhausted: one retry too many
retries_exhausted_late(rubric_attempt) ==
    rubric_attempt > max_rubric_retries + 1

\* the test at 858: no rubric retry is left
retries_exhausted(rubric_attempt) == rubric_attempt > max_rubric_retries

\* _finalize_with_quality_gate from the result of
\* _grade_rubric(final_md = final_md, ...) (826-887)
graded(p, s, rubric_payload) ==
    LET l == loc[p]
        s0 == [s EXCEPT !.graded = l.final_md]
        s1 == update_quality_gate(update_rubric(s0, rubric_payload),
                                  quality_gate_of(rubric_payload))
    IN  IF rubric_payload.passed
        THEN complete(p, s1, [l EXCEPT !.rubric_passed = TRUE])
        ELSE IF retries_exhausted(l.rubric_attempt)
        THEN LET flagged == [rubric_payload EXCEPT !.review_required = TRUE]
                 s2 == update_quality_gate(update_rubric(s1, flagged),
                                           quality_gate_of(flagged))
             IN  complete(p, s2, [l EXCEPT !.review_required = TRUE])
        ELSE invoke(p, log(s1, "Rubric below threshold"),
                    [l EXCEPT !.writer_iteration = next_iteration(s1)],
                    "rb_write")

\* the grader call returns text (_grade_rubric 723-748); a payload that is
\* no dict raises inside the try block and takes the fallback
GradeReturns(p) ==
    /\ \E text \in GraderTexts :
       /\ returns(p, "grade", text \notin WellFormed)
       /\ LET parsed == extract_json(text)
           IN
             IF parsed.type = "list"
             THEN graded(p, log(state, "Rubric grader failed"),
                         rubric_payload_of(normalize_rubric_payload(JNone),
                                           loc[p].rubric_attempt, TRUE))
             ELSE graded(p, state,
                         rubric_payload_of(normalize_rubric_payload(parsed),
                                           loc[p].rubric_attempt, FALSE))

\* the grader call raises (_grade_rubric 749-777): absorbed
GradeRaises(p) ==
    /\ pc[p] = "grade"
    /\ abnormal(TRUE)
    /\ UNCHANGED <<env_retries, ntexts, used, raw_rubric,
                   normalized, step_call>>
    /\ graded(p, log(state, "Rubric grader failed"),
              rubric_payload_of(normalize_rubric_payload(JNone),
                                loc[p].rubric_attempt, TRUE))

\* the rollback write returns (_finalize_with_quality_gate 907-924)
RbWriteReturns(p) ==
    /\ returns(p, "rb_write", FALSE)
    /\ LET l == loc[p]
           draft_text == ntexts + 1
           s1 == append_draft(state,
                     [iteration |-> l.writer_iteration, text |-> draft_text])
       IN  invoke(p, s1, [l EXCEPT !.draft_text = draft_text,
                                   !.checked = draft_text], "rb_fact_check")

\* mutant of rollback_fact_passed: a verdict once true stays true
rollback_fact_passed_sticky(fact_passed, fc_dict) ==
    fact_passed \/ fc_dict.passed

\* fact_passed after the rollback's fact-check (938)
rollback_fact_passed(fact_passed, fc_dict) == fc_dict.passed

\* the rollback fact-check returns (925-944, then the loop top 807-824)
RbFactCheckReturns(p) ==
    /\ \E text \in FactCheckTexts :
       /\ returns(p, "rb_fact_check", text \notin WellFormed)
       /\ LET parsed == extract_json(text)
               l == loc[p]
           IN
             IF parsed.type = "list"
             THEN fail(p, state, l, "'list' object has no attribute 'get'")
             ELSE
             LET fc_dict == normalize_fact_check(parsed, FALSE)
                 s1 == append_fact_check(state,
                           fact_check_entry(l.writer_iteration, parsed, fc_dict, l.checked))
             IN  polish_next(p, log(s1, "Rubric rollback fact-check"),
                             [l EXCEPT !.fact_passed =
                                 rollback_fact_passed(@, fc_dict)])

\* mutant of reruns_writer: a writer feedback does not re-run the writer
reruns_writer_researcher_only(stage) == stage \in {"researcher"}

\* mutant of reruns_writer: the style editor stage re-runs the writer too
reruns_writer_always(stage) ==
    stage \in {"researcher", "writer", "style_editor"}

\* the test at 350: the stages that re-run the writer
reruns_writer(stage) == stage \in {"researcher", "writer"}

\* POST /runs/{run_id}/feedback up to the first stage call of
\* run_pipeline_with_feedback (main.py 164-182, orchestrator.py 264-292,
\* 415-432)
submit_feedback(p, stage) ==
    /\ arrives(p)
    /\ UNCHANGED <<env_retries, ntexts, used, faults, raw_rubric,
                   normalized, step_call>>
    /\ IF conflict(state)
       THEN reject(p, "conflict")
       ELSE IF stage \notin valid_stages
       THEN reject(p, "invalid")
       ELSE
       LET s1 == add_feedback(state, stage, "feedback")
           s2 == log(log(set_status(s1, "RUNNING", NoError),
                         "Re-running from stage"), "User feedback")
           l == [no_locals EXCEPT !.kind = "feedback",
                                  !.stage = stage,
                                  !.steps = steps_of(state),
                                  !.research_dict = state.research]
       IN  IF stage = "researcher"
           THEN invoke(p,
                       log(s2, "Re-running Step 1: Researcher with feedback"),
                       l, "fb_research")
           ELSE IF reruns_writer(stage)
           THEN fb_write_start(p, s2, l)
           ELSE IF stage = "fact_checker"
           THEN IF Len(l.steps.drafts) = 0
                THEN fail(p, s2, l, "No draft available to fact-check")
                ELSE invoke(p,
                            log(s2, "Re-running Step 3: Fact-checker with feedback"),
                            [l EXCEPT !.checked = Last(l.steps.drafts).text],
                            "fb_fact_only")
           ELSE fb_tail(p, s2, [l EXCEPT !.draft_text = fb_stale_draft(l)])

\* the feedback write returns (run_pipeline_with_feedback 380-400)
FbWriteReturns(p) ==
    /\ returns(p, "fb_write", FALSE)
    /\ LET l == loc[p]
           draft_text == ntexts + 1
           s1 == append_draft(state,
                     [iteration |-> l.current_iteration, text |-> draft_text])
           s2 == log(log(s1, "Draft revised based on feedback"),
                     "Re-running Step 3: Fact-checker")
       IN  invoke(p, s2, [l EXCEPT !.draft_text = draft_text,
                                   !.checked = draft_text], "fb_fact_check")

\* the fact-check after the feedback write returns (401-413, 460-475)
FbFactCheckReturns(p) ==
    /\ \E text \in FactCheckTexts :
       /\ returns(p, "fb_fact_check", text \notin WellFormed)
       /\ LET parsed == extract_json(text)
               l == loc[p]
           IN
             IF parsed.type = "list"
             THEN fail(p, state, l, "'list' object has no attribute 'get'")
             ELSE
             LET fc_dict == normalize_fact_check(parsed, TRUE)
                 s1 == append_fact_check(state,
                           fact_check_entry(l.current_iteration, parsed, fc_dict,
                                            l.checked))
             IN  fb_tail(p, log(s1, "Fact-check re-run"),
                         [l EXCEPT !.draft_text = fb_stale_draft(l)])

\* the fact-check of stage fact_checker returns (445-459, 464-475)
FbFactOnlyReturns(p) ==
    /\ \E text \in FactCheckTexts :
       /\ returns(p, "fb_fact_only", text \notin WellFormed)
       /\ LET parsed == extract_json(text)
               l == loc[p]
           IN
             IF parsed.type = "list"
             THEN fail(p, state, l, "'list' object has no attribute 'get'")
             ELSE
             LET fc_dict == normalize_fact_check(parsed, TRUE)
                 current_iteration == Len(l.steps.fact_checks) + 1
                 s1 == append_fact_check(state,
                           fact_check_entry(current_iteration, parsed, fc_dict,
                                            l.checked))
             IN  fb_tail(p, log(s1, "Fact-check re-run with feedback"),
                         [l EXCEPT !.current_iteration = current_iteration,
                                   !.draft_text = l.checked])

\* a stage-executor call raises: _kickoff logs and re-raises (1070-1075),
\* _run_step re-raises, the handler stores ERROR
StageRaises(p) ==
    /\ pc[p] \in Sites \ {"grade"}
    /\ abnormal(TRUE)
    /\ UNCHANGED <<env_retries, ntexts, used, raw_rubric,
                   normalized, step_call>>
    /\ \E message \in StageErrors :
         LET s1 == IF is_rate_limit(message)
                   THEN log(state, "Rate limit hit - fallback chain exhausted")
                   ELSE state
         IN  fail(p, log(s1, "ERROR in task"), loc[p], message)

Next ==
    \E p \in Req :
        \/ execute_run(p)
        \/ \E stage \in Stages : submit_feedback(p, stage)
        \/ ResearchReturns(p)
        \/ WriteReturns(p)
        \/ FactCheckReturns(p)
        \/ PolishReturns(p)
        \/ GradeReturns(p)
        \/ GradeRaises(p)
        \/ RbWriteReturns(p)
        \/ RbFactCheckReturns(p)
        \/ FbResearchReturns(p)
        \/ FbWriteReturns(p)
        \/ FbFactCheckReturns(p)
        \/ FbFactOnlyReturns(p)
        \/ StageRaises(p)

Spec == Init /\ [][Next]_vars

\* the same handlers over pipelines that were given a telemetry sink
SinkSpec == SinkInit /\ [][Next]_vars

\* a pending stage or grader call of p returns or raises
Responds(p) ==
    \/ ResearchReturns(p)
    \/ WriteReturns(p)
    \/ FactCheckReturns(p)
    \/ PolishReturns(p)
    \/ GradeReturns(p)
    \/ GradeRaises(p)
    \/ RbWriteReturns(p)
    \/ RbFactCheckReturns(p)
    \/ FbResearchReturns(p)
    \/ FbWriteReturns(p)
    \/ FbFactCheckReturns(p)
    \/ FbFactOnlyReturns(p)
    \/ StageRaises(p)

\* every call the pipeline awaits is answered: the executor runs the task in
\* a thread pool and the event loop resumes the coroutine when it is done
FairSpec == Spec /\ \A p \in Req : WF_vars(Responds(p))

\* ------------------------------------------- the rubric normaliser alone
\* the values a grader may put under a score key
ScoreValues ==
    {Absent, NotANumber, Num(50), Num(300), Num(333), Num(400), Num(500),
     Num(650)}

\* the payloads _normalize_rubric_payload is applied to: None, or a dict
RawRubrics ==
    {JNone} \cup {JRubric(c, r, m, o) : c, r, m, o \in ScoreValues}

RubricInit ==
    /\ state = init_run
    /\ env_retries \in -1..MaxRetriesEnv
    /\ pc = [p \in Req |-> "new"]
    /\ loc = [p \in Req |-> no_locals]
    /\ obs = [p \in Req |-> no_obs]
    /\ ntexts = 0
    /\ used = 0
    /\ faults = 0
    /\ raw_rubric \in RawRubrics
    /\ normalized = NULL
    /\ sink = [attached |-> FALSE, failed |-> 0]
    /\ twin = visible(init_run)
    /\ step_call = no_step_call

\* one call of _normalize_rubric_payload(raw, thresholds, grader_model)
Normalize ==
    /\ normalized = NULL
    /\ normalized' = normalize_rubric_payload(raw_rubric)
    /\ UNCHANGED <<state, env_retries, pc, loc, obs, ntexts, used, faults,
                   raw_rubric, sink, twin, step_call>>

RubricSpec == RubricInit /\ [][Normalize]_vars

\* ------------------------------------------------ RunStore.append_step alone
\* the values a steps key may hold when append_step is called
StepValues ==
    {JSteps(k, << >>) : k \in {"absent", "null", "dict", "str"}}
    \cup {JSteps("list", items) :
             items \in UNION {[1..n -> 1..2] : n \in 0..MaxLen}}

StoreInit ==
    /\ state = init_run
    /\ env_retries \in -1..MaxRetriesEnv
    /\ pc = [p \in Req |-> "new"]
    /\ loc = [p \in Req |-> no_locals]
    /\ obs = [p \in Req |-> no_obs]
    /\ ntexts = 0
    /\ used = 0
    /\ faults = 0
    /\ raw_rubric = JNone
    /\ normalized = NULL
    /\ sink = [attached |-> FALSE, failed |-> 0]
    /\ twin = visible(init_run)
    /\ step_call \in [key : {"drafts", "fact_checks"}, field : StepValues,
                       value : 1..2, result : {NULL}]

\* one call of append_step(run_id, key, value)
AppendStep ==
    /\ step_call.result = NULL
    /\ step_call' = [step_call EXCEPT
                        !.result = append_step(step_call.field, step_call.value)]
    /\ UNCHANGED <<state, env_retries, pc, loc, obs, ntexts, used, faults,
                   raw_rubric, normalized, sink, twin>>

StoreSpec == StoreInit /\ [][AppendStep]_vars

\* ------------------------------------------------------------------ claims
InFlight(p) == pc[p] \in Sites

Finished(p) == pc[p] = "done"

\* the stage calls of request p, by stage
research_calls(p) == obs[p].calls["research"] + obs[p].calls["fb_research"]

write_calls(p) ==
    obs[p].calls["write"] + obs[p].calls["rb_write"] + obs[p].calls["fb_write"]

fact_check_calls(p) ==
    obs[p].calls["fact_check"] + obs[p].calls["rb_fact_check"]
    + obs[p].calls["fb_fact_check"] + obs[p].calls["fb_fact_only"]

\* C1: every accepted execute call terminates, and when it does the run's
\* status is one of DONE, DONE_WITH_WARNINGS, ERROR, written exactly once by
\* that execution as its terminal status (never left PENDING or RUNNING).
C1_ExecuteTerminates ==
    /\ <>[](\A p \in Req : loc[p].kind = "execute" => ~InFlight(p))
    /\ [](\A p \in Req :
            loc[p].kind = "execute" =>
              /\ InFlight(p) => obs[p].terminal = << >>
              /\ Finished(p) => /\ Len(obs[p].terminal) = 1
                                /\ obs[p].terminal[1] \in Terminal)
    /\ [][\A p \in Req :
            (loc'[p].kind = "execute" /\ ~Finished(p) /\ Finished(p)') =>
               /\ state'.status \in Terminal
               /\ state'.status = obs'[p].terminal[1]]_vars

\* an execute call ended DONE_WITH_WARNINGS after two polish attempts
C1_Witness ==
    \E p \in Req :
        /\ Finished(p)
        /\ loc[p].kind = "execute"
        /\ obs[p].terminal = << "DONE_WITH_WARNINGS" >>
        /\ obs[p].calls["polish"] = 2

\* C2: an execute or feedback request that finds the run RUNNING is rejected
\* with a conflict and changes nothing in the run record (status, steps,
\* citations, feedback, quality_gate, error, logs), and invokes no stage.
C2_ConflictChangesNothing ==
    [][\A p \in Req :
          (pc[p] = "new" /\ pc'[p] # "new" /\ state.status = "RUNNING") =>
             /\ pc'[p] = "conflict"
             /\ state' = state
             /\ obs'[p] = no_obs]_vars

\* a request was rejected while the pipeline was past its first draft
C2_Witness ==
    \E p \in Req :
        /\ pc[p] = "conflict"
        /\ state.status = "RUNNING"
        /\ Len(state.drafts) > 0

\* C3: whatever the interleaving of execute and feedback requests, at most
\* one pipeline execution of the run is in flight, so no two stage calls of
\* the run are outstanding together.
C3_OneExecutionInFlight ==
    Cardinality({p \in Req : InFlight(p)}) <= 1

\* a second request arrived while the first was waiting for its fact-check
C3_Witness ==
    \E p, q \in Req :
        /\ pc[p] = "fact_check"
        /\ pc[q] = "conflict"

\* C4: for execute and for feedback, an execution that reaches the end of
\* its pipeline stores DONE iff factPassed, the last rubric result passed and
\* review is not required; otherwise it stores DONE_WITH_WARNINGS.
C4_FinalStatus ==
    [][\A p \in Req :
          (~Finished(p) /\ Finished(p)' /\ state'.status # "ERROR") =>
             /\ state'.rubric # NULL
             /\ state'.status =
                  IF /\ loc'[p].fact_passed
                     /\ state'.rubric.passed
                     /\ ~state'.rubric.review_required
                  THEN "DONE" ELSE "DONE_WITH_WARNINGS"]_vars

\* a feedback execution ended with a passing rubric but a failed fact-check
C4_Witness ==
    \E p \in Req :
        /\ Finished(p)
        /\ loc[p].kind = "feedback"
        /\ state.status = "DONE_WITH_WARNINGS"
        /\ state.rubric.passed
        /\ ~loc[p].fact_passed

\* the fact-check entries request p has appended so far (p being the only
\* execution since it loaded the record)
own_fact_checks(p) ==
    (Len(loc[p].steps.fact_checks) + 1)..Len(state.fact_checks)

\* C5: in one execute call the Fact-Check Loop invokes the write stage at
\* most 1 + MAX_FACT_CHECK_RETRIES times, and not again once a fact-check
\* has passed.
C5_FactCheckLoopBound ==
    \A p \in Req :
        loc[p].kind = "execute" =>
          /\ obs[p].calls["write"] <= 1 + MAX_FACT_CHECK_RETRIES
          /\ pc[p] \in {"write", "fact_check"} =>
               \A i \in own_fact_checks(p) : ~state.fact_checks[i].passed

\* the loop used its whole budget: three writes, three failed fact-checks
C5_Witness ==
    \E p \in Req :
        /\ loc[p].kind = "execute"
        /\ obs[p].calls["write"] = 1 + MAX_FACT_CHECK_RETRIES
        /\ obs[p].calls["fact_check"] = 1 + MAX_FACT_CHECK_RETRIES
        /\ pc[p] = "polish"

\* C6: one finalize call performs at least one and at most 1 + max_retries
\* polish+grade attempts, and when the loop ends quality_gate.attempts is the
\* number of polish+grade cycles that call performed.
C6_QualityGateAttempts ==
    /\ [](\A p \in Req :
            /\ obs[p].calls["polish"] <= 1 + max_rubric_retries
            /\ obs[p].calls["grade"] <= obs[p].calls["polish"])
    /\ [][\A p \in Req :
            (pc[p] = "grade" /\ Finished(p)') =>
               /\ obs'[p].calls["polish"] >= 1
               /\ obs'[p].calls["grade"] = obs'[p].calls["polish"]
               /\ state'.quality_gate.attempts = obs'[p].calls["grade"]]_vars

\* a finalize call ended after its second attempt, the retry used up
C6_Witness ==
    \E p \in Req :
        /\ Finished(p)
        /\ obs[p].calls["grade"] = 2
        /\ state.quality_gate # NULL
        /\ state.quality_gate.attempts = 2
        /\ state.quality_gate.review_required

\* request p is a style_editor feedback on a run that had a final draft
style_editor_rerun(p) ==
    /\ loc[p].kind = "feedback"
    /\ loc[p].stage = "style_editor"
    /\ loc[p].steps.final # NULL

citations_match(s) ==
    /\ s.research # NULL
    /\ Len(s.citations) = Len(sources_of(s.research))
    /\ \A i \in 1..Len(s.citations) :
          /\ sources_of(s.research)[i].has_id
          /\ s.citations[i].id = sources_of(s.research)[i].id

\* C8: once a research run or re-run (execute, or feedback with stage
\* researcher) has persisted its result, citations and steps.research.sources
\* have the same length and the same ids in the same order.
C8_CitationsMatchSources ==
    [][\A p \in Req :
          (/\ pc[p] \in {"research", "fb_research"}
           /\ pc'[p] # pc[p]
           /\ state'.research # state.research) => citations_match(state')]_vars

non_decreasing(entries) ==
    \A i \in 1..Len(entries) : \A j \in i..Len(entries) :
        entries[i].iteration <= entries[j].iteration

\* C9: in every reachable state the iteration numbers of drafts are
\* non-decreasing in sequence order, and so are those of fact_checks.
C9_IterationsNonDecreasing ==
    /\ non_decreasing(state.drafts)
    /\ non_decreasing(state.fact_checks)

\* C10: every fact_checks entry carries the iteration number of the draft it
\* checked.
C10_FactCheckPairsWithDraft ==
    \A i \in 1..Len(state.fact_checks) :
        \E j \in 1..Len(state.drafts) :
            /\ state.drafts[j].text = state.fact_checks[i].draft
            /\ state.drafts[j].iteration = state.fact_checks[i].iteration

\* a stage call of p has returned (not raised) in this step
stage_returned(p, sites) ==
    /\ pc[p] \in sites
    /\ pc'[p] # pc[p] \/ obs'[p] # obs[p]
    /\ used' = used + 1

\* a stage call of p has raised in this step
stage_raised(p) ==
    /\ pc[p] \in Sites \ {"grade"}
    /\ Finished(p)'
    /\ used' = used

\* C11: in an execute call whose first fact-check returns passed = true,
\* drafts and fact_checks each hold exactly one entry when the Quality Gate
\* Loop starts.
C11_OneDraftOneFactCheck ==
    [][\A p \in Req :
          (/\ loc[p].kind = "execute"
           /\ stage_returned(p, {"fact_check"})
           /\ obs[p].calls["fact_check"] = 1
           /\ pc'[p] = "polish"
           /\ loc'[p].fact_passed) =>
             /\ Len(state'.drafts) = 1
             /\ Len(state'.fact_checks) = 1]_vars

IsPrefix(a, b) ==
    /\ Len(a) <= Len(b)
    /\ \A i \in 1..Len(a) : a[i] = b[i]

\* C12: over any sequence of execute and feedback calls, ERROR endings
\* included, drafts, fact_checks, feedback and logs only grow: each value is
\* a prefix of every later value.
C12_HistoryOnlyGrows ==
    [][/\ IsPrefix(state.drafts, state'.drafts)
       /\ IsPrefix(state.fact_checks, state'.fact_checks)
       /\ IsPrefix(state.feedback, state'.feedback)
       /\ IsPrefix(state.logs, state'.logs)]_vars

\* a feedback call on a run with history added a draft, a fact-check and a
\* feedback entry, and ended in ERROR
C12_Witness ==
    \E p \in Req :
        /\ Finished(p)
        /\ loc[p].kind = "feedback"
        /\ state.status = "ERROR"
        /\ Len(loc[p].steps.drafts) > 0
        /\ Len(state.drafts) > Len(loc[p].steps.drafts)
        /\ Len(state.fact_checks) > Len(loc[p].steps.fact_checks)
        /\ Len(state.feedback) > 0

\* C13: a run in a terminal status returns to RUNNING only through a feedback
\* call: an execute call on a terminal run does not write RUNNING and does
\* not re-run the pipeline.
C13_ReentryOnlyByFeedback ==
    [][\A p \in Req :
          (/\ pc[p] = "new"
           /\ pc'[p] # "new"
           /\ state.status \in Terminal
           /\ Len(state'.status_writes) > Len(state.status_writes)) =>
             /\ loc'[p].kind = "feedback"
             /\ state'.status_writes[Len(state.status_writes) + 1] = "RUNNING"]_vars

\* the status changes the claim allows
StatusSteps ==
    {<<"PENDING", "RUNNING">>}
        \cup {<<"RUNNING", t>> : t \in Terminal}
        \cup {<<t, "RUNNING">> : t \in Terminal}

\* C14: status only ever changes along PENDING -> RUNNING, RUNNING -> DONE,
\* RUNNING -> DONE_WITH_WARNINGS, RUNNING -> ERROR and terminal -> RUNNING.
C14_StatusSteps ==
    /\ state.status = Last(state.status_writes)
    /\ state.status_writes[1] = "PENDING"
    /\ \A i \in 1..(Len(state.status_writes) - 1) :
          <<state.status_writes[i], state.status_writes[i + 1]>> \in StatusSteps

\* a run was executed to ERROR and then re-run by feedback to DONE
C14_Witness ==
    state.status_writes = <<"PENDING", "RUNNING", "ERROR", "RUNNING", "DONE">>

\* C15: when a stage invocation raises, that execution invokes no further
\* stage, the failure is appended to logs, status becomes ERROR, error holds
\* the exception's message, and the history persisted before is kept.
C15_StageFailure ==
    [][\A p \in Req :
          stage_raised(p) =>
            /\ obs'[p].calls = obs[p].calls
            /\ IsPrefix(state.logs, state'.logs)
            /\ Len(state'.logs) > Len(state.logs)
            /\ state'.status = "ERROR"
            /\ state'.error = Last(obs'[p].raised)
            /\ steps_of(state') = steps_of(state)
            /\ state'.citations = state.citations]_vars

\* the sites of the research and fact-check stages
ParsedSites ==
    {"research", "fb_research", "fact_check", "rb_fact_check",
     "fb_fact_check", "fb_fact_only"}

\* C16: a malformed research or fact-check output never ends the run in
\* ERROR: the pipeline absorbs it and goes on to the next stage.
C16_MalformedOutputAbsorbed ==
    [][\A p \in Req :
          stage_returned(p, ParsedSites) =>
            /\ state'.status # "ERROR"
            /\ pc'[p] \in Sites]_vars

\* the Fact-Check Loop of execute call p used its whole budget and no
\* fact-check of the loop passed
fact_loop_exhausted(p) ==
    /\ loc[p].kind = "execute"
    /\ obs[p].calls["write"] = 1 + MAX_FACT_CHECK_RETRIES
    /\ pc[p] \notin {"write", "fact_check"}
    /\ Len(state.fact_checks) >=
          Len(loc[p].steps.fact_checks) + 1 + MAX_FACT_CHECK_RETRIES
    /\ \A i \in 1..(1 + MAX_FACT_CHECK_RETRIES) :
          ~state.fact_checks[Len(loc[p].steps.fact_checks) + i].passed

\* the step that ends the Fact-Check Loop without a pass goes on to polish
\* with factPassed = false
exhaustion_goes_on ==
    [][\A p \in Req :
          (stage_returned(p, {"fact_check"}) /\ fact_loop_exhausted(p)') =>
             /\ pc'[p] = "polish"
             /\ ~loc'[p].fact_passed
             /\ state'.status = "RUNNING"]_vars

\* C17 as claimed: after such a loop the pipeline goes on to the Quality Gate
\* Loop with factPassed = false, and an execution that completes ends in
\* DONE_WITH_WARNINGS.
C17_Original ==
    /\ exhaustion_goes_on
    /\ [][\A p \in Req :
            (/\ fact_loop_exhausted(p)
             /\ ~Finished(p)
             /\ Finished(p)'
             /\ state'.status # "ERROR") =>
               state'.status = "DONE_WITH_WARNINGS"]_vars

\* C17 amended: after such a loop the pipeline goes on to the Quality Gate
\* Loop with factPassed = false, and an execution that completes ends in
\* DONE_WITH_WARNINGS unless the fact-check of a quality-gate rollback passed
\* afterwards: then factPassed is true again and DONE is stored when the
\* last rubric attempt passes.
C17_ExhaustedLoopGoesOn ==
    /\ exhaustion_goes_on
    /\ [][\A p \in Req :
            (/\ fact_loop_exhausted(p)
             /\ ~Finished(p)
             /\ Finished(p)'
             /\ state'.status # "ERROR") =>
               \/ state'.status = "DONE_WITH_WARNINGS"
               \/ /\ state'.status = "DONE"
                  /\ obs'[p].calls["rb_fact_check"] > 0
                  /\ Last(state'.fact_checks).passed
                  /\ Last(state'.fact_checks).iteration =
                        Last(state'.drafts).iteration
                  /\ state'.rubric.passed]_vars

\* an execute call whose loop found no passing draft ended DONE after a
\* rollback
C17_Witness ==
    \E p \in Req :
        /\ fact_loop_exhausted(p)
        /\ Finished(p)
        /\ state.status = "DONE"

\* C18: when a rubric attempt fails and rubricAttempt > maxRetries, the loop
\* sets reviewRequired, persists a quality_gate with passed = false and
\* review_required = true, invokes no further stage, and the run ends in
\* DONE_WITH_WARNINGS, not in ERROR.
C18_ReviewRequired ==
    [][\A p \in Req :
          (/\ pc[p] = "grade"
           /\ pc'[p] # "grade"
           /\ ~state'.rubric.passed
           /\ loc[p].rubric_attempt > max_rubric_retries) =>
             /\ Finished(p)'
             /\ loc'[p].review_required
             /\ ~state'.quality_gate.passed
             /\ state'.quality_gate.review_required
             /\ state'.rubric.review_required
             /\ obs'[p].calls = obs[p].calls
             /\ state'.status = "DONE_WITH_WARNINGS"
             /\ Last(obs'[p].terminal) = "DONE_WITH_WARNINGS"]_vars

\* with no retry allowed, the first failed attempt ended the run for review
C18_Witness ==
    \E p \in Req :
        /\ Finished(p)
        /\ max_rubric_retries = 0
        /\ state.quality_gate # NULL
        /\ state.quality_gate.review_required
        /\ state.quality_gate.attempts = 1
        /\ state.status = "DONE_WITH_WARNINGS"

\* the four scores meet their thresholds
meets_thresholds(scores) ==
    /\ scores.clarity >= MIN_CLARITY
    /\ scores.correctness >= MIN_CORRECTNESS
    /\ scores.completeness >= MIN_COMPLETENESS
    /\ scores.overall >= MIN_OVERALL

\* the scores {4, 3, 4, 3.67} of the claim
ExampleScores ==
    [clarity |-> 400, correctness |-> 300, completeness |-> 400,
     overall |-> 367]

\* C19: a rubric result has passed = true iff the four scores meet their
\* thresholds; the scores {4, 3, 4, 3.67} give passed = false, and with a
\* retry left that failure triggers the rollback: a write, then a
\* fact-check, then the next polish.
C19_RubricPassed ==
    /\ [](state.rubric # NULL =>
            /\ state.rubric.error => ~state.rubric.passed
            /\ ~state.rubric.error =>
                 (state.rubric.passed <=> meets_thresholds(state.rubric.scores)))
    /\ [][\A p \in Req :
            (/\ pc[p] = "grade"
             /\ pc'[p] # "grade"
             /\ state'.rubric.scores = ExampleScores) =>
               /\ ~state'.rubric.passed
               /\ loc[p].rubric_attempt <= max_rubric_retries =>
                    /\ pc'[p] = "rb_write"
                    /\ obs'[p].calls["rb_write"] = obs[p].calls["rb_write"] + 1]_vars
    /\ [][\A p \in Req :
            /\ stage_returned(p, {"rb_write"}) => pc'[p] = "rb_fact_check"
            /\ (stage_returned(p, {"rb_fact_check"}) /\ ~Finished(p)') =>
                  pc'[p] = "polish"]_vars

\* the scores {4, 3, 4, 3.67} failed an attempt, and the rollback's write
\* and fact-check have led to the next polish
C19_Witness ==
    \E p \in Req :
        /\ pc[p] = "polish"
        /\ obs[p].calls["rb_fact_check"] = 1
        /\ state.rubric # NULL
        /\ state.rubric.scores = ExampleScores
        /\ ~state.rubric.passed

\* the clamped value of a raw score
in_scale(value, score) ==
    /\ RUBRIC_SCALE_MIN <= score /\ score <= RUBRIC_SCALE_MAX
    /\ value.kind # "num" => score = RUBRIC_SCALE_MIN
    /\ (value.kind = "num" /\ value.v < RUBRIC_SCALE_MIN) =>
          score = RUBRIC_SCALE_MIN
    /\ (value.kind = "num" /\ value.v > RUBRIC_SCALE_MAX) =>
          score = RUBRIC_SCALE_MAX
    /\ (value.kind = "num" /\ value.v >= RUBRIC_SCALE_MIN
                           /\ value.v <= RUBRIC_SCALE_MAX) => score = value.v

\* the payload the normaliser read: None reads as a dict without keys
raw_scores ==
    IF raw_rubric.type = "none"
    THEN JRubric(Absent, Absent, Absent, Absent) ELSE raw_rubric

\* C20: each rubric sub-score is clamped into [1, 5], a missing or
\* non-numeric one becoming 1; without an overall value from the grader,
\* overall is the mean of the three clamped sub-scores rounded to 2 decimals
\* (4, 5, 3 gives 4.0); a supplied overall is clamped into [1, 5].
C20_ScoresClamped ==
    normalized # NULL =>
      /\ in_scale(raw_scores.clarity, normalized.scores.clarity)
      /\ in_scale(raw_scores.correctness, normalized.scores.correctness)
      /\ in_scale(raw_scores.completeness, normalized.scores.completeness)
      /\ raw_scores.overall.kind # "null" =>
            in_scale(raw_scores.overall, normalized.scores.overall)
      /\ raw_scores.overall.kind = "null" =>
            LET sum == normalized.scores.clarity
                       + normalized.scores.correctness
                       + normalized.scores.completeness
                d == 3 * normalized.scores.overall - sum
            IN  -1 <= d /\ d <= 1
      /\ (/\ raw_scores.clarity = Num(400)
          /\ raw_scores.correctness = Num(500)
          /\ raw_scores.completeness = Num(300)
          /\ raw_scores.overall = Absent) => normalized.scores.overall = 400

\* 4, 5 and 3 without an overall were normalised to an overall of 4.0
C20_Witness ==
    /\ normalized # NULL
    /\ raw_rubric = JRubric(Num(400), Num(500), Num(300), Absent)
    /\ normalized.scores.overall = 400

C22_SyntheticResearch ==
    [][\A p \in Req :
          (/\ loc[p].kind = "execute"
           /\ stage_returned(p, {"research"})
           /\ pc'[p] = "write") =>
             /\ state'.research # NULL
             /\ validate_research(state'.research)]_vars

\* the fact-check call of p at one of sites returned a response without JSON
\* and its entry was appended
unparsed_fact_check(p, sites) ==
    /\ stage_returned(p, sites)
    /\ Len(state'.fact_checks) = Len(state.fact_checks) + 1
    /\ Last(state'.fact_checks).unparsed

\* C23: an unparseable fact-check response is recorded as passed = false
\* with exactly one parse-failure issue in the Fact-Check Loop, in the
\* quality-gate rollback and after the write of a feedback call with stage
\* researcher or writer; a feedback call with stage fact_checker alone
\* records it as passed = true with no issues.
C23_UnparsedFactCheck ==
    [][\A p \in Req :
          /\ unparsed_fact_check(
                 p, {"fact_check", "rb_fact_check", "fb_fact_check"}) =>
                /\ ~Last(state'.fact_checks).passed
                /\ Last(state'.fact_checks).issues = << "parse error" >>
          /\ unparsed_fact_check(p, {"fb_fact_only"}) =>
                /\ Last(state'.fact_checks).passed
                /\ Last(state'.fact_checks).issues = << >>]_vars

\* C24: each failed rubric attempt with a retry left invokes the write stage
\* once and then the fact-check stage once, whatever that fact-check says;
\* the draft and the fact-check result are appended and the next polish
\* works on the new draft; factPassed changes in the loop only with a
\* rollback fact-check, whose outcome it takes.
C24_RollbackOnce ==
    /\ [](\A p \in Req :
            /\ obs[p].calls["rb_write"] <= obs[p].calls["grade"]
            /\ obs[p].calls["rb_fact_check"] <= obs[p].calls["rb_write"])
    /\ [][\A p \in Req :
            /\ (/\ pc[p] = "grade"
                /\ pc'[p] # "grade"
                /\ ~state'.rubric.passed
                /\ loc[p].rubric_attempt <= max_rubric_retries) =>
                   /\ pc'[p] = "rb_write"
                   /\ obs'[p].calls["rb_write"] = obs[p].calls["rb_write"] + 1
            /\ obs'[p].calls["rb_write"] # obs[p].calls["rb_write"] =>
                   /\ pc[p] = "grade"
                   /\ ~state'.rubric.passed
                   /\ loc[p].rubric_attempt <= max_rubric_retries
            /\ stage_returned(p, {"rb_write"}) =>
                   /\ pc'[p] = "rb_fact_check"
                   /\ Len(state'.drafts) = Len(state.drafts) + 1
                   /\ IsPrefix(state.drafts, state'.drafts)
                   /\ state'.fact_checks = state.fact_checks
            /\ (stage_returned(p, {"rb_fact_check"}) /\ ~Finished(p)') =>
                   /\ pc'[p] = "polish"
                   /\ write_calls(p)' = write_calls(p)
                   /\ state'.drafts = state.drafts
                   /\ Len(state'.fact_checks) = Len(state.fact_checks) + 1
                   /\ IsPrefix(state.fact_checks, state'.fact_checks)
                   /\ Last(state'.fact_checks).draft = Last(state'.drafts).text
                   /\ loc'[p].fact_passed = Last(state'.fact_checks).passed
            /\ (stage_returned(p, {"polish"})
                  /\ obs[p].calls["rb_write"] > 0) =>
                   state'.final.markdown.draft = Last(state'.drafts).text
            /\ pc[p] \in {"polish", "grade", "rb_write"} =>
                   loc'[p].fact_passed = loc[p].fact_passed]_vars

\* a rollback after a passed Fact-Check Loop: its fact-check failed, one write
\* and one fact-check were made, and the second attempt ended the run
C24_Witness ==
    \E p \in Req :
        /\ Finished(p)
        /\ loc[p].kind = "execute"
        /\ obs[p].calls["fact_check"] = 1
        /\ obs[p].calls["rb_write"] = 1
        /\ obs[p].calls["rb_fact_check"] = 1
        /\ obs[p].calls["polish"] = 2
        /\ state.fact_checks[Len(loc[p].steps.fact_checks) + 1].passed
        /\ ~Last(state.fact_checks).passed
        /\ ~loc[p].fact_passed
        /\ state.status = "DONE_WITH_WARNINGS"
        /\ state.rubric.passed

\* the grading call of p raised in this step
grade_raised(p) ==
    /\ pc[p] = "grade"
    /\ pc'[p] # "grade"
    /\ used' = used

\* C25: a grading call that raises does not end the execution in ERROR: a
\* rubric result with passed = false carrying the error is persisted, the
\* attempt is counted in rubricAttempt and quality_gate.attempts, and the loop
\* goes on as for a low score: rollback with a retry left, else
\* reviewRequired.
C25_GraderFailureAbsorbed ==
    [][\A p \in Req :
          grade_raised(p) =>
            /\ state'.status # "ERROR"
            /\ obs'[p].raised = obs[p].raised
            /\ state'.rubric.error
            /\ ~state'.rubric.passed
            /\ state'.rubric.attempt = obs[p].calls["grade"]
            /\ loc'[p].rubric_attempt = obs[p].calls["grade"]
            /\ state'.quality_gate.attempts = obs[p].calls["grade"]
            /\ ~state'.quality_gate.passed
            /\ IF loc[p].rubric_attempt <= max_rubric_retries
               THEN /\ pc'[p] = "rb_write"
                    /\ ~state'.quality_gate.review_required
               ELSE /\ Finished(p)'
                    /\ loc'[p].review_required
                    /\ state'.quality_gate.review_required
                    /\ state'.status = "DONE_WITH_WARNINGS"]_vars

\* the first grading raised and the loop rolled back to the writer
C25_Witness ==
    \E p \in Req :
        /\ pc[p] = "rb_write"
        /\ state.rubric # NULL
        /\ state.rubric.error
        /\ state.rubric.attempt = 1
        /\ state.quality_gate.attempts = 1

\* 1 for TRUE, 0 for FALSE
count(cond) == IF cond THEN 1 ELSE 0

\* the Quality Gate Loop of p starts in this step
gate_starts(p) ==
    /\ obs[p].calls["polish"] = 0
    /\ obs'[p].calls["polish"] = 1

\* C26: before its Quality Gate Loop starts, a feedback call invokes no stage
\* upstream of its target: research once and only for stage researcher, write
\* once (one draft appended) and only for researcher or writer, fact-check
\* exactly once for researcher, writer and fact_checker; with fact_checker
\* no draft is appended and the text checked is the last existing draft.
C26_NoUpstreamRerun ==
    /\ [](\A p \in Req :
            loc[p].kind = "feedback" =>
              /\ obs[p].calls["research"] + obs[p].calls["write"]
                 + obs[p].calls["fact_check"] = 0
              /\ obs[p].calls["fb_research"] <=
                    count(loc[p].stage = "researcher")
              /\ obs[p].calls["fb_write"] <=
                    count(loc[p].stage \in {"researcher", "writer"})
              /\ obs[p].calls["fb_fact_check"] <=
                    count(loc[p].stage \in {"researcher", "writer"})
              /\ obs[p].calls["fb_fact_only"] <=
                    count(loc[p].stage = "fact_checker"))
    /\ [][\A p \in Req :
            (loc'[p].kind = "feedback" /\ gate_starts(p)) =>
               /\ obs'[p].calls["rb_write"] + obs'[p].calls["rb_fact_check"] = 0
               /\ obs'[p].calls["fb_research"] =
                     count(loc'[p].stage = "researcher")
               /\ obs'[p].calls["fb_write"] =
                     count(loc'[p].stage \in {"researcher", "writer"})
               /\ Len(state'.drafts) = Len(loc'[p].steps.drafts)
                     + count(loc'[p].stage \in {"researcher", "writer"})
               /\ obs'[p].calls["fb_fact_check"] + obs'[p].calls["fb_fact_only"] =
                     count(loc'[p].stage \in
                              {"researcher", "writer", "fact_checker"})
               /\ Len(state'.fact_checks) = Len(loc'[p].steps.fact_checks)
                     + count(loc'[p].stage \in
                                {"researcher", "writer", "fact_checker"})
               /\ loc'[p].stage = "fact_checker" =>
                     /\ state'.drafts = loc'[p].steps.drafts
                     /\ Last(state'.fact_checks).draft =
                           Last(state'.drafts).text]_vars

\* a fact_checker feedback reached its gate with one fact-check of the
\* existing draft
C26_Witness ==
    \E p \in Req :
        /\ loc[p].kind = "feedback"
        /\ loc[p].stage = "fact_checker"
        /\ pc[p] = "polish"
        /\ obs[p].calls["polish"] = 1
        /\ obs[p].calls["fb_fact_only"] = 1
        /\ Len(state.drafts) > 0
        /\ Last(state.fact_checks).draft = Last(state.drafts).text

\* C27: in every reachable state, RUNNING and ERROR states included, the ids
\* in citations are the ids of the sources of the persisted steps.research,
\* in the same order; citations is empty while steps.research is null.
C27_CitationsDerivable ==
    IF state.research = NULL
    THEN state.citations = << >>
    ELSE citations_match(state)

\* C28: append_step fails with an error and leaves the record unchanged when
\* the steps field exists and is not a sequence; it never replaces the value
\* by a new sequence.
C28_AppendFailsLoudly ==
    (/\ step_call.result # NULL
     /\ step_call.field.kind \notin {"list", "absent"}) =>
        /\ step_call.result.raised
        /\ step_call.result.field = step_call.field

\* the messages of the model that contain "rate limit" in some case
mentions_rate_limit(message) ==
    message \in {"rate limit exceeded", "Rate Limit exceeded"}

AfterWriteSites == {"fact_check", "rb_fact_check", "fb_fact_check"}

\* C30: within one execution each stage result is persisted before the next
\* stage is invoked: research and citations before the first write, each
\* draft before its fact-check, each fact-check result before the next write
\* or polish, each polish output (steps.final) before the grading call.
C30_PersistedBeforeNextStage ==
    [][\A p \in Req :
          /\ (pc[p] = "research" /\ pc'[p] = "write") =>
                /\ state'.research # NULL
                /\ state'.research = loc'[p].research_dict
                /\ state'.citations = citations_of(state'.research)
          /\ (pc'[p] \in AfterWriteSites /\ pc[p] # pc'[p]) =>
                /\ Len(state'.drafts) = Len(state.drafts) + 1
                /\ Last(state'.drafts).text = ntexts'
                /\ loc'[p].checked = ntexts'
          /\ (/\ pc[p] \in AfterWriteSites \cup {"fb_fact_only"}
              /\ pc'[p] \in {"write", "polish"}) =>
                /\ Len(state'.fact_checks) = Len(state.fact_checks) + 1
                /\ Last(state'.fact_checks).draft = loc[p].checked
          /\ (pc[p] = "polish" /\ pc'[p] = "grade") =>
                /\ state'.final # NULL
                /\ state'.final.markdown.text = ntexts']_vars

\* an execute call stands at its grading call after two drafts and two
\* fact-checks, the polish output stored
C30_Witness ==
    \E p \in Req :
        /\ pc[p] = "grade"
        /\ loc[p].kind = "execute"
        /\ obs[p].calls["write"] = 2
        /\ Len(state.drafts) = 2
        /\ Len(state.fact_checks) = 2
        /\ state.research # NULL
        /\ state.final # NULL
        /\ state.final.markdown.text = ntexts

\* C31: after any sequence of log appends on a run, the logs list of the
\* record and the separate log stream hold the same lines in the same order.
C31_LogsMatchStream == state.logs = state.stream

\* a feedback re-run has finished after an execution: both pipelines, the
\* store and a handler have logged
C31_Witness ==
    /\ \E p \in Req : Finished(p) /\ loc[p].kind = "feedback"
    /\ Len(state.stream) > 10
    /\ Len(state.feedback) > 0

\* C32: in every reachable state the error field is non-null only if status
\* is ERROR: a run that ended in ERROR and is re-run to DONE or
\* DONE_WITH_WARNINGS no longer carries the earlier error message.
C32_ErrorOnlyOnError == state.error # NoError => state.status = "ERROR"

\* C33: whenever status is DONE, the last draft in drafts is the text
\* steps.final was polished from and was itself the subject of a fact-check
\* whose persisted result has passed = true; a run is never DONE on the
\* strength of a fact-check made against an older draft.
C33_DoneOnCheckedDraft ==
    state.status = "DONE" =>
        /\ Len(state.drafts) > 0
        /\ state.final # NULL
        /\ state.final.markdown.draft = Last(state.drafts).text
        /\ \E i \in 1..Len(state.fact_checks) :
              /\ state.fact_checks[i].draft = Last(state.drafts).text
              /\ state.fact_checks[i].passed

\* C34: every run whose status is DONE or DONE_WITH_WARNINGS has a non-null
\* steps.research, at least one entry in drafts and one in fact_checks, and
\* non-null steps.final, steps.rubric and quality_gate, whatever sequence of
\* execute and executeWithFeedback calls produced that status.
C34_CompleteWhenDone ==
    state.status \in {"DONE", "DONE_WITH_WARNINGS"} =>
        /\ state.research # NULL
        /\ Len(state.drafts) >= 1
        /\ Len(state.fact_checks) >= 1
        /\ state.final # NULL
        /\ state.rubric # NULL
        /\ state.quality_gate # NULL

\* the passed flag of the last entry of the persisted steps.fact_checks
last_check_passed ==
    IF state.fact_checks = << >> THEN TRUE ELSE Last(state.fact_checks).passed

\* C35: at every terminal non-ERROR state the status can be recomputed from
\* the persisted record alone: the fact_passed value an execution uses for
\* its final status equals the passed flag of the last fact_checks entry
\* (true when there is none), so status is DONE exactly when that flag is
\* true, quality_gate.passed is true and quality_gate.review_required false.
C35_StatusRecomputable ==
    /\ [](state.status \in {"DONE", "DONE_WITH_WARNINGS"} =>
            /\ state.quality_gate # NULL
            /\ state.status = "DONE" <=>
                  /\ last_check_passed
                  /\ state.quality_gate.passed
                  /\ ~state.quality_gate.review_required)
    /\ [][\A p \in Req :
            (~Finished(p) /\ Finished(p)' /\ state'.status # "ERROR") =>
               loc'[p].fact_passed = last_check_passed']_vars

\* a run is DONE_WITH_WARNINGS on its last fact-check alone: an earlier
\* fact-check passed, the one of the rollback draft did not, the grader
\* passed the text
C35_Witness ==
    /\ state.status = "DONE_WITH_WARNINGS"
    /\ \E p \in Req : Finished(p) /\ obs[p].calls["rb_fact_check"] > 0
    /\ Len(state.fact_checks) >= 2
    /\ state.fact_checks[1].passed
    /\ ~Last(state.fact_checks).passed
    /\ state.quality_gate.passed
    /\ ~state.quality_gate.review_required

\* C36: in every reachable state quality_gate.review_required = true implies
\* quality_gate.passed = false and quality_gate.attempts = maxRetries + 1;
\* passed and review_required are never both true, in quality_gate or in
\* steps.rubric.
C36_ReviewOnlyWhenExhausted ==
    /\ state.quality_gate # NULL =>
          /\ state.quality_gate.review_required =>
                /\ ~state.quality_gate.passed
                /\ state.quality_gate.attempts = max_rubric_retries + 1
          /\ ~(state.quality_gate.passed /\ state.quality_gate.review_required)
    /\ state.rubric # NULL =>
          ~(state.rubric.passed /\ state.rubric.review_required)

\* a review was asked for after the one retry of the environment, and the
\* next request is under way with the flagged snapshot still in the record
C36_Witness ==
    /\ env_retries = 1
    /\ state.quality_gate # NULL
    /\ state.quality_gate.review_required
    /\ state.quality_gate.attempts = 2
    /\ state.rubric.review_required
    /\ state.status = "RUNNING"

\* C37: whenever status is DONE or DONE_WITH_WARNINGS, quality_gate and
\* steps.rubric agree on passed, review_required, attempts and scores, and
\* both describe the grading of the text currently stored in steps.final.
C37_GateMatchesRubric ==
    state.status \in {"DONE", "DONE_WITH_WARNINGS"} =>
        /\ state.quality_gate # NULL
        /\ state.rubric # NULL
        /\ state.final # NULL
        /\ state.quality_gate.passed = state.rubric.passed
        /\ state.quality_gate.review_required = state.rubric.review_required
        /\ state.quality_gate.attempts = state.rubric.attempts
        /\ state.quality_gate.scores = state.rubric.scores
        /\ state.graded = state.final.markdown

\* a feedback re-run ended after two gradings of its own, on a run whose
\* record already held the rubric of an earlier execution
C37_Witness ==
    \E p \in Req :
        /\ Finished(p)
        /\ loc[p].kind = "feedback"
        /\ obs[p].calls["grade"] = 2
        /\ \E q \in Req : q # p /\ obs[q].calls["grade"] > 0
        /\ state.status \in {"DONE", "DONE_WITH_WARNINGS"}
        /\ state.rubric.attempts = 2
        /\ state.graded = state.final.markdown

\* C38: in a single execute call the research stage is invoked exactly once,
\* polish and grade are each invoked at most 1 + maxRetries times, the write
\* stage is invoked at most (1 + maxFactCheckRetries) + maxRetries times in
\* total, and the fact-check stage is invoked exactly as many times as write
\* when no stage raises.
C38_StageCallBounds ==
    \A p \in Req :
        (loc[p].kind = "execute" /\ (InFlight(p) \/ Finished(p))) =>
            /\ research_calls(p) = 1
            /\ obs[p].calls["polish"] <= 1 + max_rubric_retries
            /\ obs[p].calls["grade"] <= 1 + max_rubric_retries
            /\ write_calls(p)
                   <= (1 + MAX_FACT_CHECK_RETRIES) + max_rubric_retries
            /\ fact_check_calls(p) <= write_calls(p)
            /\ (Finished(p) /\ obs[p].raised = << >>) =>
                   fact_check_calls(p) = write_calls(p)

\* an execute call used every call it may make: three drafts in the
\* Fact-Check Loop, one more in the rollback, two polish and grade attempts
C38_Witness ==
    \E p \in Req :
        /\ Finished(p)
        /\ loc[p].kind = "execute"
        /\ obs[p].raised = << >>
        /\ write_calls(p) = (1 + MAX_FACT_CHECK_RETRIES) + max_rubric_retries
        /\ fact_check_calls(p) = write_calls(p)
        /\ obs[p].calls["rb_write"] = 1
        /\ obs[p].calls["polish"] = 2
        /\ obs[p].calls["grade"] = 2

\* steps, citations and quality_gate of a run record
results_of(s) ==
    [research |-> s.research, drafts |-> s.drafts,
     fact_checks |-> s.fact_checks, final |-> s.final, rubric |-> s.rubric,
     citations |-> s.citations, quality_gate |-> s.quality_gate]

\* C39: steps (research, drafts, fact_checks, final, rubric), citations and
\* quality_gate are modified only while the run's status is RUNNING: no
\* operation changes any of them while status is PENDING, DONE,
\* DONE_WITH_WARNINGS or ERROR, and the transitions into and out of RUNNING
\* themselves leave them unchanged.
C39_ResultsChangeOnlyWhileRunning ==
    /\ [](\A status \in Statuses : \A error \in StageErrors \cup {NoError} :
            results_of(set_status(state, status, error)) = results_of(state))
    /\ [][results_of(state') # results_of(state) =>
             state.status = "RUNNING"]_vars
    /\ [][(state.status # "RUNNING" /\ state'.status = "RUNNING") =>
             results_of(state') = results_of(state)]_vars

\* a style_editor feedback was accepted on a finished run: the run is RUNNING
\* again, at the first polish call, with the results of the execution
C39_Witness ==
    \E p \in Req :
        /\ pc[p] = "polish"
        /\ loc[p].kind = "feedback"
        /\ obs[p].calls["polish"] = 1
        /\ state.status = "RUNNING"
        /\ state.status_writes[Len(state.status_writes) - 1]
               \in {"DONE", "DONE_WITH_WARNINGS"}
        /\ state.quality_gate # NULL
        /\ state.final # NULL
        /\ Len(state.drafts) > 0
        /\ Len(state.citations) > 0

=============================================================================
